---- MODULE Spec2Model ----
(***************************************************************************)
(* A model of funserver: the resumable HTTP request decoder                *)
(* (src/server/http.rs), the multipart part encoder (src/server/post.rs),  *)
(* the responder (src/server.rs) and the connection loop (src/main.rs).    *)
(*                                                                         *)
(* A byte is a one-character string; "xFF" stands for a byte that is not   *)
(* valid UTF-8 and "NUL" for the zero byte.  A Rust String is a sequence   *)
(* of characters, where "uFFFD" is U+FFFD (three bytes long in UTF-8).     *)
(***************************************************************************)
EXTENDS Integers, Sequences, FiniteSets, TLC

VARIABLES
    msg,        \* the pieces of the byte stream the peer sends
    pos,        \* how many pieces of msg have been handed to the decoder
    carried,    \* Option<Request>: the `partial` argument of the next parse
    state,      \* RequestState, passed by &mut to every parse
    out,        \* what the last parse call returned
    calls,      \* the calls made so far: <<carried?, chunk, result>>
    part,       \* the DataPart handed to encode_data
    enc,        \* what encode_data returned
    frame,      \* the arguments and the result of http::response
    conn        \* the connection loop of client_handler

vars == <<msg, pos, carried, state, out, calls, part, enc, frame, conn>>

----------------------------------------------------------------------------
(* Option<T> *)

None == [some |-> FALSE]

Some(x) == [some |-> TRUE, val |-> x]

----------------------------------------------------------------------------
(* Slices and strings *)

CRLF == <<"\r", "\n">>

DashDash == <<"-", "-">>

\* &s[n..]
Drop(s, n) == SubSeq(s, n + 1, Len(s))

\* &s[..n]
Take(s, n) == SubSeq(s, 1, n)

starts_with(s, p) == Len(s) >= Len(p) /\ Take(s, Len(p)) = p

ends_with(s, p) == Len(s) >= Len(p) /\ Drop(s, Len(s) - Len(p)) = p

\* str::find / position of the first c in s, 0 when there is none
find(s, c) ==
    IF \E i \in 1..Len(s) : s[i] = c
    THEN CHOOSE i \in 1..Len(s) : s[i] = c /\ \A j \in 1..(i - 1) : s[j] # c
    ELSE 0

is_whitespace(c) == c \in {" ", "\t", "\r", "\n"}

\* str::trim
trim(s) ==
    IF \A i \in 1..Len(s) : is_whitespace(s[i])
    THEN <<>>
    ELSE LET first == CHOOSE i \in 1..Len(s) :
                          ~is_whitespace(s[i]) /\ \A j \in 1..(i - 1) : is_whitespace(s[j])
             last == CHOOSE i \in 1..Len(s) :
                          ~is_whitespace(s[i]) /\ \A j \in (i + 1)..Len(s) : is_whitespace(s[j])
         IN SubSeq(s, first, last)

\* str::split(c): the segments between the occurrences of c
RECURSIVE split(_, _)
split(s, c) ==
    LET i == find(s, c)
    IN IF i = 0 THEN <<s>> ELSE <<Take(s, i - 1)>> \o split(Drop(s, i), c)

\* slice::split_inclusive(|c| c == b'\n'): every line keeps its terminator
RECURSIVE split_inclusive(_)
split_inclusive(s) ==
    IF s = <<>> THEN <<>>
    ELSE LET i == find(s, "\n")
         IN IF i = 0 THEN <<s>> ELSE <<Take(s, i)>> \o split_inclusive(Drop(s, i))

\* strip_suffix(b"\r\n").unwrap_or(line)
strip_crlf(s) == IF ends_with(s, CRLF) THEN Take(s, Len(s) - 2) ELSE s

\* String::from_utf8_lossy: an invalid byte becomes U+FFFD
from_utf8_lossy(bytes) ==
    [i \in 1..Len(bytes) |-> IF bytes[i] = "xFF" THEN "uFFFD" ELSE bytes[i]]

\* char::len_utf8
len_utf8(c) == IF c = "uFFFD" THEN 3 ELSE 1

\* the places of s that hold U+FFFD
replaced(s) == { j \in 1..Len(s) : s[j] = "uFFFD" }

\* str::len, in bytes
str_len(s) == Len(s) + 2 * Cardinality(replaced(s))

\* the place in the bytes of s where its i-th character starts
byte_start(s, i) == i + 2 * Cardinality({ j \in replaced(s) : j < i })

\* the character of s that the k-th byte belongs to
char_at_byte(s, k) ==
    CHOOSE i \in 1..Len(s) : byte_start(s, i) <= k /\ k < byte_start(s, i) + len_utf8(s[i])

\* String::as_bytes
as_bytes(s) ==
    IF replaced(s) = {} THEN s
    ELSE [k \in 1..str_len(s) |->
              IF s[char_at_byte(s, k)] = "uFFFD"
              THEN <<"xEF", "xBF", "xBD">>[k - byte_start(s, char_at_byte(s, k)) + 1]
              ELSE s[char_at_byte(s, k)]]

\* char::to_digit(10), -1 for None
to_digit(c) ==
    LET digits == <<"0", "1", "2", "3", "4", "5", "6", "7", "8", "9">>
    IN IF \E i \in 1..10 : digits[i] = c
       THEN (CHOOSE i \in 1..10 : digits[i] = c) - 1
       ELSE -1

StrUserAgent == <<"U","s","e","r","-","A","g","e","n","t">>

StrContentType == <<"C","o","n","t","e","n","t","-","T","y","p","e">>

StrMultipart == <<"m","u","l","t","i","p","a","r","t">>

StrHttpSlash == <<"H","T","T","P","/">>

----------------------------------------------------------------------------
(* Results: kind is "ok", "err" (a RequestError) or "panic" (the thread     *)
(* unwinds: a slice out of range, an arithmetic underflow, an unwrap).      *)

Panic == [kind |-> "panic"]

Err(e) == [kind |-> "err", err |-> e]

----------------------------------------------------------------------------
(* http.rs: the request state and the line parsers *)

RequestStateDefault ==
    [boundary |-> None, is_data_part |-> FALSE, is_data_part_header |-> FALSE,
     data |-> <<>>]

DataPartNew == [fields |-> <<>>, data |-> <<>>]

\* RequestState::last_data, as an update of the last part
with_last_data(st, p) == [st EXCEPT !.data[Len(st.data)] = p]

last_data(st) == st.data[Len(st.data)]

\* parse_arg: the place of the first ':' or, when there is none, of the first
\* '=' (0 when there is neither)
name_split(text) == IF find(text, ":") # 0 THEN find(text, ":") ELSE find(text, "=")

\* parse_arg: the outer quotes of the trimmed value come off
unquote(name, body) ==
    IF starts_with(body, <<"\"">>) /\ ends_with(body, <<"\"">>)
    THEN IF Len(body) < 2
         THEN Panic                                     \* &body[1..0]
         ELSE [kind |-> "ok",
               val |-> [name |-> name, body |-> SubSeq(body, 2, Len(body) - 1)]]
    ELSE [kind |-> "ok", val |-> [name |-> name, body |-> body]]

parse_arg_at(text, at) ==
    IF at = 0 THEN Err(<<"FieldError", text>>)
    ELSE unquote(Take(text, at - 1), trim(Drop(text, at)))

\* Request::parse_arg
parse_arg(text) == parse_arg_at(text, name_split(text))

\* collect::<Result<Vec<_>, _>>() over parse_arg: stops at the first failure
RECURSIVE collect_args(_, _)
collect_arg(r, bodies, acc) ==
    IF r.kind = "ok" THEN collect_args(bodies, Append(acc, r.val)) ELSE r

collect_args(bodies, acc) ==
    IF bodies = <<>> THEN [kind |-> "ok", val |-> acc]
    ELSE collect_arg(parse_arg(Head(bodies)), Tail(bodies), acc)

\* .map(|x| x.trim().to_owned())
trim_all(ss) == [i \in 1..Len(ss) |-> trim(ss[i])]

\* a slip in parse_normal: any field whose value starts with "multipart" sets
\* the boundary, whatever its name
multipart_boundary_any_name(st, name, body, children) ==
    IF children.kind # "ok" THEN children @@ [state |-> st]
    ELSE IF starts_with(body, StrMultipart)
    THEN IF children.val = <<>>
         THEN Err(<<"MultipartNoBoundary">>) @@ [state |-> st]
         ELSE [kind |-> "ok",
               val |-> [this |-> [name |-> name, body |-> body],
                        children |-> children.val],
               state |-> [st EXCEPT !.boundary = Some(children.val[1].body)]]
    ELSE [kind |-> "ok",
          val |-> [this |-> [name |-> name, body |-> body], children |-> children.val],
          state |-> st]

\* a slip in parse_normal: a multipart Content-Type without child attribute is
\* let through and the boundary left as it is
multipart_boundary_optional(st, name, body, children) ==
    IF children.kind # "ok" THEN children @@ [state |-> st]
    ELSE [kind |-> "ok",
          val |-> [this |-> [name |-> name, body |-> body], children |-> children.val],
          state |-> IF /\ name = StrContentType /\ starts_with(body, StrMultipart)
                       /\ children.val # <<>>
                    THEN [st EXCEPT !.boundary = Some(children.val[1].body)]
                    ELSE st]

\* parse_normal: a multipart Content-Type sets the boundary of the state
multipart_boundary(st, name, body, children) ==
    IF children.kind # "ok" THEN children @@ [state |-> st]
    ELSE IF name = StrContentType /\ starts_with(body, StrMultipart)
    THEN IF children.val = <<>>
         THEN Err(<<"MultipartNoBoundary">>) @@ [state |-> st]
         ELSE [kind |-> "ok",
               val |-> [this |-> [name |-> name, body |-> body],
                        children |-> children.val],
               state |-> [st EXCEPT !.boundary = Some(children.val[1].body)]]
    ELSE [kind |-> "ok",
          val |-> [this |-> [name |-> name, body |-> body], children |-> children.val],
          state |-> st]

\* parse_normal: the value split on ';' into the body and the children
split_bodies(st, name, bodies) ==
    multipart_boundary(st, name, Head(bodies), collect_args(Tail(bodies), <<>>))

\* a slip in parse_normal: the value of User-Agent is split like any other
parse_normal_simple_splits_all(st, simple) ==
    IF simple.kind # "ok" THEN simple @@ [state |-> st]
    ELSE split_bodies(st, simple.val.name, trim_all(split(simple.val.body, ";")))

parse_normal_simple(st, simple) ==
    IF simple.kind # "ok" THEN simple @@ [state |-> st]
    ELSE IF simple.val.name = StrUserAgent
    THEN [kind |-> "ok",
          val |-> [this |-> [name |-> simple.val.name, body |-> simple.val.body],
                   children |-> <<>>],
          state |-> st]
    ELSE split_bodies(st, simple.val.name, trim_all(split(simple.val.body, ";")))

\* Request::parse_normal: the result carries the state it leaves behind
parse_normal(st, line) == parse_normal_simple(st, parse_arg(from_utf8_lossy(line)))

\* parse_single: last_data.len()-2 and the truncate
trim_last_data(st) ==
    IF st.data = <<>> THEN st
    ELSE IF ends_with(last_data(st).data, CRLF)
    THEN with_last_data(st, [last_data(st) EXCEPT !.data = Take(@, Len(@) - 2)])
    ELSE st

\* parse_single: a boundary that is not the closing one opens a part
open_part(st, is_end) ==
    IF is_end THEN [st EXCEPT !.is_data_part = FALSE]
    ELSE [st EXCEPT !.data = Append(@, DataPartNew),
                    !.is_data_part_header = TRUE,
                    !.is_data_part = TRUE]

\* a slip in the boundary-line branch: a payload shorter than two bytes is left
\* as it is instead of being sliced at len()-2
boundary_line_short_payload_kept(st, line_end) ==
    IF line_end # <<>> /\ Len(line_end) < 2
    THEN Panic @@ [state |-> st]
    ELSE [kind |-> "none",
          state |-> open_part(trim_last_data(st),
                              line_end # <<>> /\ Take(line_end, 2) = DashDash)]

\* Request::parse_single, the boundary-line branch (the line starts with "--",
\* a boundary is set and the line continues with it); line_end is what follows
\* the boundary
boundary_line(st, line_end) ==
    IF line_end # <<>> /\ Len(line_end) < 2
    THEN Panic @@ [state |-> st]                        \* &line_end[..2]
    ELSE IF st.data # <<>> /\ Len(last_data(st).data) < 2
    THEN Panic @@ [state |-> st]                        \* last_data.len()-2
    ELSE [kind |-> "none",
          state |-> open_part(trim_last_data(st),
                              line_end # <<>> /\ Take(line_end, 2) = DashDash)]

\* parse_single: state.last_data().fields.push(parsed)
push_field(parsed) ==
    IF parsed.kind # "ok" THEN parsed
    ELSE IF parsed.state.data = <<>>
    THEN Panic @@ [state |-> parsed.state]              \* last_mut().unwrap()
    ELSE [kind |-> "none",
          state |-> with_last_data(parsed.state,
                        [last_data(parsed.state) EXCEPT !.fields = Append(@, parsed.val)])]

\* parse_single: state.last_data().data.extend(line)
extend_data(st, line) ==
    IF st.data = <<>>
    THEN Panic @@ [state |-> st]                        \* last_mut().unwrap()
    ELSE [kind |-> "none",
          state |-> with_last_data(st, [last_data(st) EXCEPT !.data = @ \o line])]

\* the line handed to parse_normal: inside a part's mini-header the line as it
\* is, outside any part the line without its CRLF
field_line(st, line) == IF st.is_data_part THEN line ELSE strip_crlf(line)

\* Request::parse_single, after the boundary test
ordinary_line(st, line) ==
    IF st.is_data_part /\ st.is_data_part_header /\ line = CRLF
    THEN [kind |-> "none", state |-> [st EXCEPT !.is_data_part_header = FALSE]]
    ELSE IF st.is_data_part /\ ~st.is_data_part_header
    THEN extend_data(st, line)
    ELSE IF ~st.is_data_part /\ strip_crlf(line) = <<>>
    THEN [kind |-> "none", state |-> st]
    ELSE IF st.is_data_part
    THEN push_field(parse_normal(st, field_line(st, line)))
    ELSE parse_normal(st, field_line(st, line))

\* parse_single: the line starts with "--" and a boundary is set
boundary_test(st, line) == starts_with(line, DashDash) /\ st.boundary.some

\* Request::parse_single: kind "none" is None, "ok" is Some(Ok(val)),
\* "err" is Some(Err(err))
parse_single(st, line) ==
    IF boundary_test(st, line) /\ Len(line) - 2 < str_len(st.boundary.val)
    THEN Panic @@ [state |-> st]                        \* &line[..boundary.len()]
    ELSE IF /\ boundary_test(st, line)
            /\ SubSeq(line, 3, 2 + str_len(st.boundary.val)) = as_bytes(st.boundary.val)
    THEN boundary_line(st, Drop(line, 2 + str_len(st.boundary.val)))
    ELSE ordinary_line(st, line)

\* lines.filter_map(parse_single).collect::<Result<Vec<_>, _>>()
RECURSIVE collect_fields(_, _, _)
collect_field(r, lines, acc) ==
    IF r.kind \in {"none", "ok"}
    THEN collect_fields(r.state, lines, IF r.kind = "ok" THEN Append(acc, r.val) ELSE acc)
    ELSE r

collect_fields(st, lines, acc) ==
    IF lines = <<>> THEN [kind |-> "ok", val |-> acc, state |-> st]
    ELSE collect_field(parse_single(st, Head(lines)), Tail(lines), acc)

\* the byte index n of a String as a character index, -1 when n is inside a
\* character (slicing there panics)
char_boundary(s, n) ==
    IF \E k \in 0..Len(s) : str_len(Take(s, k)) = n
    THEN CHOOSE k \in 0..Len(s) : str_len(Take(s, k)) = n
    ELSE -1

\* parse_non_partial: the method token
request_type(x) ==
    IF x = <<"G","E","T">> THEN [kind |-> "ok", val |-> "Get"]
    ELSE IF x = <<"P","O","S","T">> THEN [kind |-> "ok", val |-> "Post"]
    ELSE Err(<<"UnknownRequestType", x>>)

\* a slip in the version digits: the major digit is taken as the minor one too
version_digits_minor_slip(major, minor) ==
    IF major = -1 THEN Err(<<"InvalidMajor">>)
    ELSE IF major # 1 THEN Err(<<"UnsupportedMajor">>)
    ELSE IF minor = -1 THEN Err(<<"InvalidMinor">>)
    ELSE [kind |-> "ok", major |-> major, minor |-> major]

\* a slip in the version digits: only a major version above 1 is refused
version_digits_major_slip(major, minor) ==
    IF major = -1 THEN Err(<<"InvalidMajor">>)
    ELSE IF major > 1 THEN Err(<<"UnsupportedMajor">>)
    ELSE IF minor = -1 THEN Err(<<"InvalidMinor">>)
    ELSE [kind |-> "ok", major |-> major, minor |-> minor]

\* parse_non_partial: the two digits of the version token
version_digits(major, minor) ==
    IF major = -1 THEN Err(<<"InvalidMajor">>)
    ELSE IF major # 1 THEN Err(<<"UnsupportedMajor">>)
    ELSE IF minor = -1 THEN Err(<<"InvalidMinor">>)
    ELSE [kind |-> "ok", major |-> major, minor |-> minor]

parse_version_at(version, cut) ==
    IF cut = -1 THEN Panic                              \* &version[..5]
    ELSE IF Take(version, cut) # StrHttpSlash THEN Err(<<"MalformedVersion">>)
    ELSE version_digits(to_digit(Drop(version, cut)[1]), to_digit(Drop(version, cut)[3]))

\* parse_non_partial: the version token
parse_version(version) ==
    IF str_len(version) # 8 THEN Err(<<"MalformedVersion">>)
    ELSE parse_version_at(version, char_boundary(version, 5))

make_request(method, body, version) ==
    IF version.kind # "ok" THEN version
    ELSE [kind |-> "ok",
          val |-> [header |-> [request |-> method,
                               body |-> body,
                               version_major |-> version.major,
                               version_minor |-> version.minor],
                   fields |-> <<>>,
                   data |-> <<>>]]

\* parse_non_partial: the tokens of the request line
request_line(header_fields) ==
    IF request_type(header_fields[1]).kind # "ok" THEN request_type(header_fields[1])
    ELSE IF Len(header_fields) < 2 THEN Err(<<"BodyMissing">>)
    ELSE IF Len(header_fields) < 3 THEN Err(<<"VersionMissing">>)
    ELSE make_request(request_type(header_fields[1]).val, header_fields[2],
                      parse_version(header_fields[3]))

\* PartialRequest::parse_non_partial: the request line
parse_non_partial(lines) ==
    IF lines = <<>> THEN Err(<<"HeaderMissing">>)
    ELSE request_line(split(strip_crlf(from_utf8_lossy(Head(lines))), " "))

\* a slip at the end of parse: the parts are copied into the Request and stay
\* in the state as well
finish_copies_parts(request, fields) ==
    IF fields.kind # "ok" THEN fields
    ELSE IF ~fields.state.is_data_part
    THEN [kind |-> "ok",
          is_partial |-> FALSE,
          request |-> [request EXCEPT !.fields = @ \o fields.val,
                                      !.data = @ \o fields.state.data],
          state |-> fields.state]
    ELSE [kind |-> "ok",
          is_partial |-> TRUE,
          request |-> request,
          state |-> fields.state]

\* parse: the end of the call, after the lines have been classified
finish(request, fields) ==
    IF fields.kind # "ok" THEN fields
    ELSE IF ~fields.state.is_data_part
    THEN [kind |-> "ok",
          is_partial |-> FALSE,
          request |-> [request EXCEPT !.fields = @ \o fields.val,
                                      !.data = @ \o fields.state.data],
          state |-> [fields.state EXCEPT !.data = <<>>]]
    ELSE [kind |-> "ok",
          is_partial |-> TRUE,
          request |-> request,
          state |-> fields.state]

\* parse without a carried Request: the state is reset, the first line is the
\* request line
parse_fresh(request, lines) ==
    IF request.kind # "ok" THEN request @@ [state |-> RequestStateDefault]
    ELSE finish(request.val, collect_fields(RequestStateDefault, Tail(lines), <<>>))

\* a slip in parse: without a carried Request the state is left as the caller
\* hands it over
parse_without_reset(partial, st, s) ==
    IF partial.some
    THEN finish(partial.val, collect_fields(st, split_inclusive(s), <<>>))
    ELSE IF parse_non_partial(split_inclusive(s)).kind # "ok"
    THEN parse_non_partial(split_inclusive(s)) @@ [state |-> st]
    ELSE finish(parse_non_partial(split_inclusive(s)).val,
                collect_fields(st, Tail(split_inclusive(s)), <<>>))

\* PartialRequest::parse(partial, state, s).  The result carries the state the
\* call leaves behind in *state, also when it fails.
parse(partial, st, s) ==
    IF partial.some
    THEN finish(partial.val, collect_fields(st, split_inclusive(s), <<>>))
    ELSE parse_fresh(parse_non_partial(split_inclusive(s)), split_inclusive(s))

----------------------------------------------------------------------------
(* The byte streams fed to the decoder.  A stream is a sequence of pieces;  *)
(* a chunk (one TLS read) is the concatenation of consecutive pieces, so a  *)
(* read can end at a line end or inside a line.                             *)

RECURSIVE Flatten(_)
Flatten(ss) == IF ss = <<>> THEN <<>> ELSE Head(ss) \o Flatten(Tail(ss))

ReqPost == <<"P","O","S","T"," ","/","u"," ","H","T","T","P","/","1",".","1","\r","\n">>

LineCTMultipart == <<"C","o","n","t","e","n","t","-","T","y","p","e",":"," ","m","u","l","t","i","p","a","r","t","/","f","o","r","m","-","d","a","t","a",";"," ","b","o","u","n","d","a","r","y","=","B","\r","\n">>

LineCTMultipartQuoted == <<"C","o","n","t","e","n","t","-","T","y","p","e",":"," ","m","u","l","t","i","p","a","r","t","/","f","o","r","m","-","d","a","t","a",";"," ","b","o","u","n","d","a","r","y","=","\"","B","\"","\r","\n">>

LineCTPlain == <<"C","o","n","t","e","n","t","-","T","y","p","e",":"," ","t","e","x","t","/","p","l","a","i","n","\r","\n">>

LineHost == <<"H","o","s","t",":"," ","h","\r","\n">>

LineOpen == <<"-","-","B","\r","\n">>

LineClose == <<"-","-","B","-","-","\r","\n">>

LineCDText == <<"C","o","n","t","e","n","t","-","D","i","s","p","o","s","i","t","i","o","n",":"," ","f","o","r","m","-","d","a","t","a",";"," ","n","a","m","e","=","\"","f","\"","\r","\n">>

LineCTPng == <<"C","o","n","t","e","n","t","-","T","y","p","e",":"," ","i","m","a","g","e","/","p","n","g","\r","\n">>

\* Payloads, each as the pieces a read may separate: text, two lines, nothing,
\* a payload ending in its own CRLF, bytes that are no text, a line starting
\* with "--" (whole, and separable after the "--"), and one holding the
\* boundary delimiter in the middle of a line.
Payloads ==
    { <<<<"h">>, <<"i">>>>,
      <<<<"a", "\r", "\n">>, <<"b">>>>,
      <<>>,
      <<<<"x">>, <<"\r", "\n">>>>,
      <<<<"xFF", "NUL", "\t">>>>,
      <<<<"-", "-", "x">>>>,
      <<<<"-", "-">>, <<"y">>>>,
      <<<<"x", "y">>, <<"-", "-", "B", "-", "-">>>> }

PlainPayloads == { <<<<"h">>, <<"i">>>>, <<>> }

PartHeaders == { <<LineCDText>>, <<LineCDText, LineCTPng>> }

TopFields ==
    { <<LineCTMultipart>>, <<LineCTMultipartQuoted>>,
      <<LineHost, LineCTMultipart>>, <<LineCTMultipart, LineHost>> }

\* the pieces of one part: its opening boundary line, its mini-header, the
\* blank line, its payload and the CRLF before the next boundary line
PartPieces(p) == <<LineOpen>> \o p.header \o <<CRLF>> \o p.payload \o <<CRLF>>

RECURSIVE PartsPieces(_)
PartsPieces(ps) ==
    IF ps = <<>> THEN <<>> ELSE PartPieces(Head(ps)) \o PartsPieces(Tail(ps))

MultipartPieces(top, ps) ==
    <<ReqPost>> \o top \o <<CRLF>> \o PartsPieces(ps) \o <<LineClose>>

MultipartMsg(top, ps) ==
    [kind |-> "multipart", top |-> top, parts |-> ps,
     pieces |-> MultipartPieces(top, ps)]

\* valid, complete multipart requests with boundary B: one part with every
\* header and payload, and two parts
MultipartMsgs ==
    { MultipartMsg(top, <<[header |-> h, payload |-> p]>>) :
          top \in TopFields, h \in PartHeaders, p \in Payloads }
    \cup
    { MultipartMsg(<<LineCTMultipart>>,
                   <<[header |-> <<LineCDText>>, payload |-> p1],
                     [header |-> <<LineCDText>>, payload |-> p2]>>) :
          p1 \in PlainPayloads, p2 \in PlainPayloads }

\* the bytes of pieces a+1 .. b of the stream
Chunk(m, a, b) == Flatten(SubSeq(m.pieces, a + 1, b))

Whole(m) == Flatten(m.pieces)

----------------------------------------------------------------------------
(* The caller of PartialRequest::parse: it hands over one chunk per call,    *)
(* either with the Request the last call returned or with None.              *)

MaxChunks == 2

NoCall == [kind |-> "none"]

DecodeIdle ==
    /\ part = <<>>
    /\ enc = NoCall
    /\ frame = NoCall
    /\ conn = NoCall

InitDecode ==
    /\ pos = 0
    /\ carried = None
    /\ state = RequestStateDefault
    /\ out = NoCall
    /\ calls = <<>>
    /\ DecodeIdle

\* what the caller keeps of a call's result
Returned(n, partial, r) ==
    /\ out' = r
    /\ state' = r.state
    /\ carried' = IF r.kind = "ok" THEN Some(r.request) ELSE None
    /\ calls' = Append(calls, [fresh |-> ~partial.some, from |-> pos,
                               upto |-> pos + n, out |-> r])
    /\ pos' = pos + n

\* one call of PartialRequest::parse on the next n pieces
Feed(n, partial) ==
    /\ Len(calls) < MaxChunks
    /\ out.kind # "panic"
    /\ pos + n <= Len(msg.pieces)
    /\ Returned(n, partial, parse(partial, state, Chunk(msg, pos, pos + n)))
    /\ UNCHANGED <<msg, part, enc, frame, conn>>

FeedFresh == \E n \in 1..Len(msg.pieces) : Feed(n, None)

FeedCarry == \E n \in 1..Len(msg.pieces) : carried.some /\ Feed(n, carried)

NextDecode == FeedFresh \/ FeedCarry

InitMultipart == msg \in MultipartMsgs /\ InitDecode

SpecMultipart == InitMultipart /\ [][NextDecode]_vars

----------------------------------------------------------------------------
(* Claims about valid multipart requests (SpecMultipart) *)

\* the calls so far are one fresh call on the start of the stream followed by
\* calls that carry the returned Request
CarriedChain ==
    /\ calls # <<>>
    /\ calls[1].fresh /\ calls[1].from = 0
    /\ \A i \in 2..Len(calls) : ~calls[i].fresh

\* the first chunk ends with a line terminator
CutAtLineEnd == Chunk(msg, 0, calls[1].upto)[Len(Chunk(msg, 0, calls[1].upto))] = "\n"

TwoChunksOfAll == Len(calls) = 2 /\ CarriedChain /\ pos = Len(msg.pieces)

\* C1: a valid multipart request cut in two at a line end and parsed in two
\* calls, the second with the Request the first returned and the same state,
\* gives the same Request as one call on all the bytes.
C1_ChunkBoundaryInvariance ==
    (msg.kind = "multipart" /\ TwoChunksOfAll /\ CutAtLineEnd)
        => /\ out.kind = "ok"
           /\ out.request = parse(None, RequestStateDefault, Whole(msg)).request

\* the number of pieces before the payload of the first part
PayloadStart == 1 + Len(msg.top) + 1 + 1 + Len(msg.parts[1].header) + 1

\* the first chunk ends after some and before all of the first part's payload
CutInsidePayload ==
    /\ PayloadStart < calls[1].upto
    /\ calls[1].upto < PayloadStart + Len(msg.parts[1].payload)

\* C2: a one-part upload with boundary B cut inside the payload: the first call
\* returns is_partial = true, the second returns is_partial = false and one
\* DataPart holding the whole content without the CRLF before the closing
\* boundary.
C2_SplitUpload ==
    (msg.kind = "multipart" /\ Len(msg.parts) = 1 /\ CarriedChain /\ CutInsidePayload)
        => /\ calls[1].out.kind = "ok" /\ calls[1].out.is_partial
           /\ TwoChunksOfAll =>
                  /\ out.kind = "ok" /\ ~out.is_partial
                  /\ Len(out.request.data) = 1
                  /\ out.request.data[1].data = Flatten(msg.parts[1].payload)

\* the first chunk holds the request line and every top-level header line, so
\* the Content-Type line that declares the boundary has been parsed
BoundaryDeclared == calls[1].upto >= 1 + Len(msg.top)

\* C10: of a multipart request whose Content-Type line has been parsed, every
\* call made before the closing boundary line has been handed over returns
\* is_partial = true, and the call that consumes it returns is_partial = false.
C10_PartialUntilClosingBoundary ==
    (msg.kind = "multipart" /\ CarriedChain /\ BoundaryDeclared /\ out.kind = "ok")
        => (out.is_partial <=> pos < Len(msg.pieces))

----------------------------------------------------------------------------
(* Request lines (SpecLine) *)

Methods == { <<"G","E","T">>, <<"P","O","S","T">>, <<"P","U","T">>, <<"g","e","t">>, <<>>, <<"G","E","T","X">>, <<"NUL", "NUL">> }

Paths == { <<"/">>, <<"/","a",".","h","t","m","l">>, <<>>, <<"/","x","?","y","=","1">> }

MajorChars == { "0", "1", "2", "9", "x" }

MinorChars == { "0", "1", "9", "x" }

Version(major, minor) == StrHttpSlash \o <<major, ".", minor>>

\* version tokens that are not HTTP/<char>.<char>
OddVersions == { <<"H","T","T","P","/","1",".","1","0">>, <<"H","T","T","X","/","1",".","1">>, <<"H","T","T","P","/","1">>, <<"a","b","c","xFF","d","e">> }

RequestLine(method, path, version) ==
    method \o <<" ">> \o path \o <<" ">> \o version \o CRLF

\* a request line and the blank line after it
LineMsg(method, path, major, minor) ==
    [kind |-> "line", method |-> method, path |-> path, major |-> major,
     minor |-> minor,
     pieces |-> <<RequestLine(method, path, Version(major, minor)), CRLF>>]

OddLineMsg(method, path, version) ==
    [kind |-> "oddline", method |-> method, path |-> path, version |-> version,
     pieces |-> <<RequestLine(method, path, version), CRLF>>]

LineMsgs ==
    { LineMsg(m, p, ma, mi) : m \in Methods, p \in Paths, ma \in MajorChars,
                              mi \in MinorChars }
    \cup { OddLineMsg(m, <<"/">>, v) : m \in { <<"G","E","T">>, <<"P","U","T">> }, v \in OddVersions }

InitLine == msg \in LineMsgs /\ InitDecode

SpecLine == InitLine /\ [][NextDecode]_vars

DigitChars == { "0", "1", "2", "3", "4", "5", "6", "7", "8", "9" }

DigitValue(c) ==
    CASE c = "0" -> 0 [] c = "1" -> 1 [] c = "2" -> 2 [] c = "3" -> 3 [] c = "4" -> 4
      [] c = "5" -> 5 [] c = "6" -> 6 [] c = "7" -> 7 [] c = "8" -> 8 [] c = "9" -> 9

\* the one call made so far is a call without a carried Request on the start
\* of the stream
FirstFreshCall == Len(calls) = 1 /\ calls[1].fresh

GetOrPost == msg.method \in { <<"G","E","T">>, <<"P","O","S","T">> }

ValidLine ==
    /\ msg.kind = "line"
    /\ GetOrPost
    /\ msg.major = "1"
    /\ msg.minor \in DigitChars

\* C3: METHOD PATH HTTP/1.MINOR with METHOD GET or POST parses, without a
\* carried request, to a header with that method, that path, major 1 and that
\* minor; with nothing but the blank line after it, fields and data are empty
\* and the request is not partial.
C3_RequestLine ==
    (ValidLine /\ FirstFreshCall)
        => /\ out.kind = "ok"
           /\ out.request.header =
                  [request |-> IF msg.method = <<"G","E","T">> THEN "Get" ELSE "Post",
                   body |-> msg.path,
                   version_major |-> 1,
                   version_minor |-> DigitValue(msg.minor)]
           /\ out.request.fields = <<>>
           /\ out.request.data = <<>>
           /\ ~out.is_partial

\* C3: POST /x?y=1 HTTP/1.9 and its blank line have been parsed in one call
C3_Witness ==
    /\ ValidLine /\ FirstFreshCall
    /\ msg.method = <<"P","O","S","T">> /\ msg.path = <<"/","x","?","y","=","1">> /\ msg.minor = "9"
    /\ pos = 2
    /\ out.kind = "ok" /\ out.request.header.version_minor = 9

\* C4: without a carried request, a method other than GET and POST fails with
\* UnknownRequestType, and GET or POST with a version whose major digit is not
\* 1 fails with UnsupportedMajor; no Request is returned.
C4_RequestLineErrors ==
    (msg.kind = "line" /\ FirstFreshCall)
        => /\ ~GetOrPost =>
                  /\ out.kind = "err"
                  /\ out.err = <<"UnknownRequestType", msg.method>>
                  /\ ~carried.some
           /\ (GetOrPost /\ msg.major \in DigitChars \ {"1"}) =>
                  /\ out.kind = "err"
                  /\ out.err = <<"UnsupportedMajor">>
                  /\ ~carried.some

\* C4: GET / HTTP/2.0 has been refused with UnsupportedMajor
C4_Witness ==
    /\ msg.kind = "line" /\ FirstFreshCall
    /\ msg.method = <<"G","E","T">> /\ msg.major = "2" /\ msg.minor = "0"
    /\ out.kind = "err" /\ out.err = <<"UnsupportedMajor">>

----------------------------------------------------------------------------
(* Requests that declare no boundary (SpecPlain) *)

ReqGet == <<"G","E","T"," ","/","a",".","h","t","m","l"," ","H","T","T","P","/","1",".","1","\r","\n">>

Field(name, body, children) ==
    [this |-> [name |-> name, body |-> body], children |-> children]

\* a line after the request line, with what parse_single makes of it outside
\* any part: a field, nothing (a blank line) or an error
PlainLine(bytes, sort, field) == [bytes |-> bytes, sort |-> sort, field |-> field]

PlainCT == PlainLine(LineCTPlain, "field", Field(StrContentType, <<"t","e","x","t","/","p","l","a","i","n">>, <<>>))

PlainLines ==
    { PlainLine(LineHost, "field", Field(<<"H","o","s","t">>, <<"h">>, <<>>)),
      PlainLine(CRLF, "blank", <<>>),
      PlainLine(LineOpen, "error", <<>>),
      PlainLine(LineClose, "error", <<>>),
      PlainLine(<<"a","=","b",";"," ","c","=","\"","d","\"","\r","\n">>, "field",
                Field(<<"a">>, <<"b">>, <<[name |-> <<"c">>, body |-> <<"d">>]>>)),
      PlainLine(<<"X","-","T","y","p","e",":"," ","m","u","l","t","i","p","a","r","t","/","x",";"," ","b","o","u","n","d","a","r","y","=","B","\r","\n">>, "field",
                Field(<<"X","-","T","y","p","e">>, <<"m","u","l","t","i","p","a","r","t","/","x">>, <<[name |-> <<"b","o","u","n","d","a","r","y">>, body |-> <<"B">>]>>)),
      PlainLine(<<"x",":"," ","xFF","\r","\n">>, "field", Field(<<"x">>, <<"uFFFD">>, <<>>)),
      PlainLine(<<"j","u","n","k","\r","\n">>, "error", <<>>),
      PlainLine(<<"C","o","n","t","e","n","t","-","T","y","p","e",":"," ","m","u","l","t","i","p","a","r","t","/","f","o","r","m","-","d","a","t","a","\r","\n">>, "error", <<>>) }

MaxPlainLines == 2

PlainSeqs == UNION { [1..n -> PlainLines] : n \in 0..MaxPlainLines }

\* GET with Content-Type: text/plain and up to MaxPlainLines further lines
PlainMsg(ls) ==
    [kind |-> "plain", lines |-> <<PlainCT>> \o ls,
     pieces |-> <<ReqGet, LineCTPlain>> \o [i \in 1..Len(ls) |-> ls[i].bytes]]

PlainMsgs == { PlainMsg(ls) : ls \in PlainSeqs }

InitPlain == msg \in PlainMsgs /\ InitDecode

SpecPlain == InitPlain /\ [][NextDecode]_vars

\* the fields of the lines that are fields
RECURSIVE FieldsOf(_)
FieldsOf(ls) ==
    IF ls = <<>> THEN <<>>
    ELSE (IF Head(ls).sort = "field" THEN <<Head(ls).field>> ELSE <<>>) \o FieldsOf(Tail(ls))

\* the lines after the request line handed over so far
LinesFed == SubSeq(msg.lines, 1, pos - 1)

\* C6: of a text/plain request that declares no boundary, no lines make the
\* decoder enter the multipart branch: is_data_part stays false and no DataPart
\* is created; the lines that are fields become the top-level fields, in
\* order, and the data of the returned Request is empty.
C6_NonMultipartParse ==
    msg.kind = "plain"
        => /\ ~state.is_data_part
           /\ state.data = <<>>
           /\ out.kind = "ok" => (~out.is_partial /\ out.request.data = <<>>)
           /\ CarriedChain =>
                  /\ out.kind = "ok" <=> (\A i \in 1..Len(LinesFed) : LinesFed[i].sort # "error")
                  /\ out.kind = "ok" => out.request.fields = FieldsOf(LinesFed)

\* C6: after a field with a child named boundary that is no Content-Type, the
\* line --B has been handed over in a second call
C6_Witness ==
    /\ msg.kind = "plain" /\ CarriedChain /\ Len(calls) = 2
    /\ Len(msg.lines) = 3 /\ pos = 4 /\ calls[1].upto = 3
    /\ msg.lines[2].field = Field(<<"X","-","T","y","p","e">>, <<"m","u","l","t","i","p","a","r","t","/","x">>, <<[name |-> <<"b","o","u","n","d","a","r","y">>, body |-> <<"B">>]>>)
    /\ msg.lines[3].bytes = LineOpen
    /\ calls[1].out.kind = "ok" /\ Len(calls[1].out.request.fields) = 2
    /\ out.kind = "err"

----------------------------------------------------------------------------
(* http.rs: statuses, content types and the response framing *)

Statuses == { "Ok", "NotFound" }

\* Status::as_bytes
status_as_bytes(status) ==
    <<"H","T","T","P","/","1",".","1"," ">> \o (IF status = "Ok" THEN <<"2","0","0"," ","O","K">> ELSE <<"4","0","4"," ","N","o","t"," ","F","o","u","n","d">>)

ContentTypes ==
    { "Html", "Javascript", "Css", "Png", "Jpg", "Webp", "Gif", "Txt", "Icon",
      "Json", "Opus", "Mpeg", "Ttf", "Woff", "Wasm" }

\* ContentType::create
create(extension) ==
    CASE extension = <<"h","t","m","l">> -> Some("Html")
      [] extension = <<"j","s">> -> Some("Javascript")
      [] extension = <<"c","s","s">> -> Some("Css")
      [] extension = <<"p","n","g">> -> Some("Png")
      [] extension \in { <<"j","p","g">>, <<"j","p","e","g">> } -> Some("Jpg")
      [] extension = <<"w","e","b","p">> -> Some("Webp")
      [] extension = <<"g","i","f">> -> Some("Gif")
      [] extension = <<"t","x","t">> -> Some("Txt")
      [] extension = <<"i","c","o">> -> Some("Icon")
      [] extension = <<"j","s","o","n">> -> Some("Json")
      [] extension = <<"o","p","u","s">> -> Some("Opus")
      [] extension = <<"m","p","3">> -> Some("Mpeg")
      [] extension = <<"t","t","f">> -> Some("Ttf")
      [] extension = <<"w","o","f","f">> -> Some("Woff")
      [] extension = <<"w","a","s","m">> -> Some("Wasm")
      [] OTHER -> None

\* ContentType::as_bytes: the media type of each content type
media_type(content_type) ==
    CASE content_type = "Html" -> <<"t","e","x","t","/","h","t","m","l">>
      [] content_type = "Javascript" -> <<"a","p","p","l","i","c","a","t","i","o","n","/","j","a","v","a","s","c","r","i","p","t">>
      [] content_type = "Css" -> <<"t","e","x","t","/","c","s","s">>
      [] content_type = "Png" -> <<"i","m","a","g","e","/","p","n","g">>
      [] content_type = "Jpg" -> <<"i","m","a","g","e","/","j","p","e","g">>
      [] content_type = "Webp" -> <<"i","m","a","g","e","/","w","e","b","p">>
      [] content_type = "Gif" -> <<"i","m","a","g","e","/","g","i","f">>
      [] content_type = "Txt" -> <<"t","e","x","t","/","p","l","a","i","n">>
      [] content_type = "Icon" -> <<"i","m","a","g","e","/","x","-","i","c","o","n">>
      [] content_type = "Json" -> <<"a","p","p","l","i","c","a","t","i","o","n","/","j","s","o","n">>
      [] content_type = "Opus" -> <<"a","u","d","i","o","/","o","g","g">>
      [] content_type = "Mpeg" -> <<"a","u","d","i","o","/","m","p","e","g">>
      [] content_type = "Ttf" -> <<"f","o","n","t","/","t","t","f">>
      [] content_type = "Woff" -> <<"f","o","n","t","/","w","o","f","f">>
      [] content_type = "Wasm" -> <<"a","p","p","l","i","c","a","t","i","o","n","/","w","a","s","m">>

\* ContentType::as_bytes
content_type_as_bytes(content_type) == StrContentType \o <<":"," ">> \o media_type(content_type)

DigitOf(d) == <<"0", "1", "2", "3", "4", "5", "6", "7", "8", "9">>[d + 1]

\* format!("{length}"): the decimal digits of a usize
RECURSIVE to_string(_)
to_string(n) == IF n < 10 THEN <<DigitOf(n)>> ELSE Append(to_string(n \div 10), DigitOf(n % 10))

\* response_header: each field followed by CRLF
RECURSIVE join_fields(_)
join_fields(fields) ==
    IF fields = <<>> THEN <<>> ELSE Head(fields) \o CRLF \o join_fields(Tail(fields))

StrKeepAlive == <<"C","o","n","n","e","c","t","i","o","n",":"," ","k","e","e","p","-","a","l","i","v","e">>

StrContentLength == <<"C","o","n","t","e","n","t","-","L","e","n","g","t","h",":"," ">>

\* a slip in response_header: the Content-Length line is written for an empty
\* body too
response_header_always_length(status, content_type, length) ==
    join_fields(<<status_as_bytes(status), content_type_as_bytes(content_type),
                  StrKeepAlive, StrContentLength \o to_string(length)>>)

\* response_header
response_header(status, content_type, length) ==
    join_fields(<<status_as_bytes(status), content_type_as_bytes(content_type),
                  StrKeepAlive>>
                \o (IF length # 0 THEN <<StrContentLength \o to_string(length)>> ELSE <<>>))

\* response
response(status, content_type, data) ==
    response_header(status, content_type, Len(data)) \o CRLF \o data

----------------------------------------------------------------------------
(* Framing every status, content type and body (SpecFrame) *)

NoMsg == [kind |-> "none", pieces |-> <<>>]

Repeat(c, n) == [i \in 1..n |-> c]

\* bodies: empty, one byte, CRLFs, bytes that are no text, the 404 body and
\* bodies around the lengths where the decimal length gains a digit
Bodies ==
    { <<>>, <<"a">>, <<"\r","\n","\r","\n">>, <<"xFF","NUL">>, <<"4","0","4"," ","n","o","t"," ","f","o","u","n","d">> }
    \cup { Repeat("a", n) : n \in {9, 10, 11, 99, 100, 101} }

Respond ==
    /\ frame.kind = "none"
    /\ \E status \in Statuses, content_type \in ContentTypes, data \in Bodies :
           frame' = [kind |-> "ok", status |-> status, content_type |-> content_type,
                     data |-> data, bytes |-> response(status, content_type, data)]
    /\ UNCHANGED <<msg, pos, carried, state, out, calls, part, enc, conn>>

InitFrame == msg = NoMsg /\ InitDecode

SpecFrame == InitFrame /\ [][Respond]_vars

\* the number a sequence of decimal digits writes
RECURSIVE DecimalValue(_)
DecimalValue(ds) ==
    IF ds = <<>> THEN 0
    ELSE 10 * DecimalValue(SubSeq(ds, 1, Len(ds) - 1)) + DigitValue(ds[Len(ds)])

\* the lines of the header of a framed response: the bytes before the first
\* blank line, without their CRLFs
RECURSIVE HeaderLines(_)
HeaderLines(lines) ==
    IF lines = <<>> \/ Head(lines) = CRLF THEN <<>>
    ELSE <<strip_crlf(Head(lines))>> \o HeaderLines(Tail(lines))

FrameHeader == HeaderLines(split_inclusive(frame.bytes))


\* C9: a framed response is the status line, the Content-Type line, the line
\* Connection: keep-alive, then a Content-Length line exactly when the body is
\* not empty, holding the body's length in decimal, then a blank line, then the
\* body unchanged; every header line ends in CRLF and there is no other header.
C9_ResponseFraming ==
    frame.kind = "ok"
        => /\ Len(FrameHeader) = IF frame.data = <<>> THEN 3 ELSE 4
           /\ FrameHeader[1] = (IF frame.status = "Ok" THEN <<"H","T","T","P","/","1",".","1"," ","2","0","0"," ","O","K">>
                                ELSE <<"H","T","T","P","/","1",".","1"," ","4","0","4"," ","N","o","t"," ","F","o","u","n","d">>)
           /\ FrameHeader[2] = <<"C","o","n","t","e","n","t","-","T","y","p","e",":"," ">> \o media_type(frame.content_type)
           /\ FrameHeader[3] = <<"C","o","n","n","e","c","t","i","o","n",":"," ","k","e","e","p","-","a","l","i","v","e">>
           /\ frame.data # <<>> =>
                  /\ Take(FrameHeader[4], 16) = <<"C","o","n","t","e","n","t","-","L","e","n","g","t","h",":"," ">>
                  /\ \A i \in 17..Len(FrameHeader[4]) : FrameHeader[4][i] \in DigitChars
                  /\ DecimalValue(Drop(FrameHeader[4], 16)) = Len(frame.data)
           /\ frame.bytes = join_fields(FrameHeader) \o CRLF \o frame.data

\* C9: a 200 response of type Png with a body of 100 bytes has been framed
C9_Witness ==
    /\ frame.kind = "ok" /\ frame.status = "Ok" /\ frame.content_type = "Png"
    /\ Len(frame.data) = 100
    /\ Len(FrameHeader) = 4
    /\ FrameHeader[4] = <<"C","o","n","t","e","n","t","-","L","e","n","g","t","h",":"," ","1","0","0">>

----------------------------------------------------------------------------
(* post.rs: the encoder of one part *)

\* str::rfind: the place of the last c in s, 0 when there is none
rfind(s, c) ==
    IF \E i \in 1..Len(s) : s[i] = c
    THEN CHOOSE i \in 1..Len(s) : s[i] = c /\ \A j \in (i + 1)..Len(s) : s[j] # c
    ELSE 0

\* Path::file_name of a path that does not end in a separator
file_name(path) == Drop(path, rfind(path, "/"))

\* the extension of a file name: what follows its last '.', None when it has
\* none or only starts with one
name_extension(name) ==
    IF name = <<".",".">> \/ rfind(name, ".") <= 1 THEN None
    ELSE Some(Drop(name, rfind(name, ".")))

\* Path::extension
extension(path) == name_extension(file_name(path))

typed(extension_of, content_type) ==
    IF content_type.some THEN [kind |-> "ok", val |-> content_type.val]
    ELSE Err(<<"InvalidExtension", extension_of>>)

\* respond: the content type of a path's extension; a missing or unknown
\* extension is an error
path_content_type(path) ==
    IF extension(path).some
    THEN typed(extension(path), create(extension(path).val))
    ELSE Err(<<"InvalidExtension", None>>)

\* SmolServer::extension_content_type: the content type of a file name's
\* extension, as respond finds the one of a path
extension_content_type(filename) == path_content_type(filename)

\* fields.find(|field| field.this.name == name).map(|field| field.children.clone())
find_field(fields, name) ==
    IF \E i \in 1..Len(fields) : fields[i].this.name = name
    THEN Some(fields[CHOOSE i \in 1..Len(fields) :
                         /\ fields[i].this.name = name
                         /\ \A j \in 1..(i - 1) : fields[j].this.name # name].children)
    ELSE None

\* content_disposition.iter().find(|field| field.name == name).map(|field| field.body.clone())
find_child(children, name) ==
    IF \E i \in 1..Len(children) : children[i].name = name
    THEN Some(children[CHOOSE i \in 1..Len(children) :
                           /\ children[i].name = name
                           /\ \A j \in 1..(i - 1) : children[j].name # name].body)
    ELSE None

StrContentDisposition == <<"C","o","n","t","e","n","t","-","D","i","s","p","o","s","i","t","i","o","n">>

\* a slip in encode_data: the CRLF after the payload is left out
emit_no_final_crlf(content_type, content_disposition, data) ==
    [kind |-> "ok",
     val |-> StrContentDisposition \o <<":"," ","f","o","r","m","-","d","a","t","a",";"," ">> \o content_disposition \o CRLF
             \o (IF content_type.some THEN content_type_as_bytes(content_type.val) \o CRLF
                 ELSE <<>>)
             \o CRLF \o data]

\* encode_data: the bytes written
emit(content_type, content_disposition, data) ==
    [kind |-> "ok",
     val |-> StrContentDisposition \o <<":"," ","f","o","r","m","-","d","a","t","a",";"," ">> \o content_disposition \o CRLF
             \o (IF content_type.some THEN content_type_as_bytes(content_type.val) \o CRLF
                 ELSE <<>>)
             \o CRLF \o data \o CRLF]

encode_typed(content_type, filename, data) ==
    IF content_type.kind # "ok" THEN content_type
    ELSE emit(Some(content_type.val),
              as_bytes(<<"n","a","m","e","=","\"","f","i","l","e","s","[","0","]","\"",";"," ","f","i","l","e","n","a","m","e","=","\"">> \o filename \o <<"\"">>), data)

encode_file(filename, data) ==
    IF ~filename.some THEN Panic                        \* must have a filename
    ELSE encode_typed(extension_content_type(filename.val), filename.val, data)

encode_named(children, name, data) ==
    IF ~name.some THEN Panic                            \* must have a name
    ELSE IF name.val = <<"t","e","x","t","_","m","e","s","s","a","g","e">> THEN emit(None, <<"n","a","m","e","=","\"","c","o","n","t","e","n","t","\"">>, data)
    ELSE encode_file(find_child(children, <<"f","i","l","e","n","a","m","e">>), data)

encode_disposition(content_disposition, data) ==
    IF ~content_disposition.some THEN Panic             \* must have a content disposition
    ELSE encode_named(content_disposition.val,
                      find_child(content_disposition.val, <<"n","a","m","e">>), data)

\* encode_data
encode_data(fields, data) ==
    encode_disposition(find_field(fields, StrContentDisposition), data)

----------------------------------------------------------------------------
(* Encoding a part and decoding the bytes (SpecCodec) *)

PartNames == { <<"t","e","x","t","_","m","e","s","s","a","g","e">>, <<"f">>, <<"f","i","l","e","s","[","0","]">>, <<"c","o","n","t","e","n","t">> }

PartFilenames ==
    { None, Some(<<"a",".","p","n","g">>), Some(<<"b",".","j","p","e","g">>), Some(<<"c",".","x","y","z">>), Some(<<"n","o","e","x","t">>),
      Some(<<"a",";","b",".","p","n","g">>), Some(<<".","p","n","g">>), Some(<<"d",".","t","a","r",".","t","x","t">>) }

\* the fields of a part after its Content-Disposition: none, or the
\* Content-Type a browser sends with a file
PartExtras == { <<>>, <<Field(StrContentType, <<"i","m","a","g","e","/","p","n","g">>, <<>>)>> }

\* payloads: nothing, text, two lines, one ending in CRLF, bytes that are no
\* text, a line starting with "--", and lines starting with the delimiter
PartPayloads ==
    { <<>>, <<"h","i">>, <<"a","\r","\n","b">>, <<"x","\r","\n">>, <<"xFF","NUL","\t">>, <<"-","-","x">>, <<"a","\r","\n","-","-","B","\r","\n","b">>, <<"-","-","B","-","-">> }

Disposition(children) == Field(StrContentDisposition, <<"f","o","r","m","-","d","a","t","a">>, children)

Child(name, body) == [name |-> name, body |-> body]

\* a part as the decoder hands it on: its Content-Disposition has a name and,
\* for a file, a filename
NamedPart(name, filename, extra, data) ==
    [fields |-> <<Disposition(<<Child(<<"n","a","m","e">>, name)>>
                              \o (IF filename.some
                                  THEN <<Child(<<"f","i","l","e","n","a","m","e">>, filename.val)>>
                                  ELSE <<>>))>> \o extra,
     data |-> data, name |-> Some(name), filename |-> filename]

\* parts without a Content-Disposition or without a name in it
NamelessPart(fields, data) ==
    [fields |-> fields, data |-> data, name |-> None, filename |-> None]

CodecParts ==
    { NamedPart(n, f, e, d) :
          n \in PartNames, f \in PartFilenames, e \in PartExtras, d \in PartPayloads }
    \cup { NamelessPart(fs, d) :
               fs \in { <<>>, <<Field(StrContentType, <<"i","m","a","g","e","/","p","n","g">>, <<>>)>>,
                        <<Disposition(<<>>)>> },
               d \in PartPayloads }

InitCodec ==
    /\ msg = NoMsg
    /\ pos = 0
    /\ carried = None
    /\ state = RequestStateDefault
    /\ out = NoCall
    /\ calls = <<>>
    /\ part \in CodecParts
    /\ enc = NoCall
    /\ frame = NoCall
    /\ conn = NoCall

\* encode_data on the part
Encode ==
    /\ enc.kind = "none"
    /\ enc' = encode_data(part.fields, part.data)
    /\ UNCHANGED <<msg, pos, carried, state, out, calls, part, frame, conn>>

\* the body post::handle builds around an encoded part, with boundary B, behind
\* the head of a multipart POST
Framed(bytes) == ReqPost \o LineCTMultipart \o CRLF \o LineOpen \o bytes \o LineClose

Decoded(r) ==
    /\ out' = r
    /\ state' = r.state
    /\ UNCHANGED <<msg, pos, carried, calls, part, enc, frame, conn>>

\* the decoder run on the encoded part
Decode ==
    /\ enc.kind = "ok"
    /\ out.kind = "none"
    /\ Decoded(parse(None, RequestStateDefault, Framed(enc.val)))

NextCodec == Encode \/ Decode

SpecCodec == InitCodec /\ [][NextCodec]_vars

\* the filename holds none of the characters the decoder splits a field at
CleanFilename ==
    part.filename.some =>
        \A i \in 1..Len(part.filename.val) : part.filename.val[i] \notin { ";", ":", "\"" }

\* no line of the payload starts with the boundary delimiter
CleanPayload ==
    \A i \in 1..Len(split_inclusive(part.data)) :
        ~starts_with(split_inclusive(part.data)[i], <<"-","-","B">>)

\* the fields encode_data writes for a part: for the part named text_message a
\* Content-Disposition with name "content", for any other a Content-Disposition
\* with name "files[0]" and the filename, and the Content-Type of its extension
WrittenFields ==
    IF part.name.val = <<"t","e","x","t","_","m","e","s","s","a","g","e">>
    THEN <<Disposition(<<Child(<<"n","a","m","e">>, <<"c","o","n","t","e","n","t">>)>>)>>
    ELSE <<Disposition(<<Child(<<"n","a","m","e">>, <<"f","i","l","e","s","[","0","]">>),
                         Child(<<"f","i","l","e","n","a","m","e">>, part.filename.val)>>),
           Field(StrContentType,
                 media_type(create(extension(part.filename.val).val).val), <<>>)>>

----------------------------------------------------------------------------
(* server.rs: the responder *)

\* the files under the current directory: paths that exist and can be read,
\* and a directory, which exists and cannot be read as a file
IndexHtml == <<"i","n","d","e","x",".","h","t","m","l">>

Files == { IndexHtml, <<"/","a",".","h","t","m","l">>, <<"/","n","o","e","x","t">>, <<"/","b",".","x","y","z">>, <<"/","u">> }

Dirs == { <<"/","d","i","r">> }

\* path.exists()
exists(path) == path \in Files \cup Dirs

\* fs::read(path)
fs_read(path) ==
    IF path \in Files
    THEN [kind |-> "ok", val |-> <<"<","p",">">> \o path \o <<"<","/","p",">">>]
    ELSE Err(<<"Io">>)

Body404 == <<"4","0","4"," ","n","o","t"," ","f","o","u","n","d">>

\* what a call of respond leaves behind: its result, the alive flag and the
\* responses handed to write_send
Outcome(result, alive, sent) == [result |-> result, alive |-> alive, sent |-> sent]

Done == [kind |-> "ok"]

\* WriterWrapper::write_send, which the socket lets succeed or fail
write_send(alive, buf, write_ok) ==
    IF write_ok
    THEN Outcome(Done, alive, <<[bytes |-> buf, complete |-> TRUE]>>)
    ELSE Outcome(Err(<<"Io">>), alive, <<[bytes |-> buf, complete |-> FALSE]>>)

\* a slip in not_found: the alive flag is left as it is
not_found_stays_alive(alive, write_ok) ==
    write_send(alive, response("NotFound", "Html", Body404), write_ok)

\* SmolServer::not_found, and the write_send of its response
not_found(alive, write_ok) ==
    write_send(FALSE, response("NotFound", "Html", Body404), write_ok)

\* respond: the response to a file that was read
file_response(alive, content_type, bytes, write_ok) ==
    IF content_type.kind # "ok" THEN Outcome(content_type, alive, <<>>)
    ELSE write_send(alive, response("Ok", content_type.val, bytes), write_ok)

read_response(alive, path, read, write_ok) ==
    IF read.kind # "ok" THEN not_found(alive, write_ok)
    ELSE file_response(alive, path_content_type(path), read.val, write_ok)

\* respond, RequestType::Get
get(alive, body, env) ==
    IF ~env.cwd_ok THEN Outcome(Err(<<"DirectoryError">>), alive, <<>>)
    ELSE IF exists(IF body = <<"/">> THEN IndexHtml ELSE body)
    THEN read_response(alive, IF body = <<"/">> THEN IndexHtml ELSE body,
                       fs_read(IF body = <<"/">> THEN IndexHtml ELSE body), env.write_ok)
    ELSE not_found(alive, env.write_ok)

\* post::handle: the relay to the remote service fails, aborts or succeeds;
\* then the file at the request's path is read and sent as Html
post_read(alive, read, write_ok) ==
    IF read.kind # "ok" THEN Outcome(read, alive, <<>>)
    ELSE write_send(alive, response("Ok", "Html", read.val), write_ok)

handle(alive, request, env) ==
    IF env.relay = "error" THEN Outcome(Err(<<"Io">>), alive, <<>>)
    ELSE IF env.relay = "panic" THEN Outcome(Panic, alive, <<>>)
    ELSE IF ~env.cwd_ok THEN Outcome(Err(<<"DirectoryError">>), alive, <<>>)
    ELSE post_read(alive, fs_read(request.header.body), env.write_ok)

\* <Request as FromStr>::from_str: the decoder without a carried Request
parsed_request(r) ==
    IF r.kind = "ok" THEN [kind |-> "ok", val |-> r.request]
    ELSE IF r.kind = "err" THEN Err(r.err)
    ELSE Panic

from_str(s) == parsed_request(parse(None, RequestStateDefault, as_bytes(s)))

dispatch(alive, request, env) ==
    IF request.kind # "ok" THEN Outcome(request, alive, <<>>)
    ELSE IF request.val.header.request = "Get" THEN get(alive, request.val.header.body, env)
    ELSE handle(alive, request.val, env)

\* SmolServer::respond
respond(alive, request, env) == dispatch(alive, from_str(from_utf8_lossy(request)), env)

----------------------------------------------------------------------------
(* main.rs: the connection loop (SpecDriver) *)

\* Duration::from_secs(5), in milliseconds
IdleTimeoutMs == 5000

\* Duration::from_millis(100)
SleepMs == 100

\* the plaintext chunks the peer sends, each with what it is: a GET of a file,
\* of a missing path, of a directory, of a file without a known extension, a
\* request the decoder refuses (with the error), or a POST
Sent(bytes, sort, err) == [bytes |-> bytes, sort |-> sort, err |-> err]

Blank == <<>>

Requests ==
    { Sent(<<"G","E","T"," ","/"," ","H","T","T","P","/","1",".","1","\r","\n","\r","\n">>, "file", Blank),
      Sent(<<"G","E","T"," ","/","a",".","h","t","m","l"," ","H","T","T","P","/","1",".","1","\r","\n","H","o","s","t",":"," ","h","\r","\n","\r","\n">>, "file", Blank),
      Sent(<<"G","E","T"," ","/","m","i","s","s","i","n","g",".","h","t","m","l"," ","H","T","T","P","/","1",".","1","\r","\n","\r","\n">>, "missing", Blank),
      Sent(<<"G","E","T"," ","/","x"," ","H","T","T","P","/","1",".","0","\r","\n","H","o","s","t",":"," ","h","\r","\n","\r","\n">>, "missing", Blank),
      Sent(<<"G","E","T"," ","/","d","i","r"," ","H","T","T","P","/","1",".","1","\r","\n","\r","\n">>, "unreadable", Blank),
      Sent(<<"G","E","T"," ","/","n","o","e","x","t"," ","H","T","T","P","/","1",".","1","\r","\n","\r","\n">>, "extension", Blank),
      Sent(<<"G","E","T"," ","/","b",".","x","y","z"," ","H","T","T","P","/","1",".","1","\r","\n","\r","\n">>, "extension", Blank),
      Sent(<<"G","E","T"," ","/"," ","H","T","T","P","/","2",".","0","\r","\n","\r","\n">>, "malformed", <<"UnsupportedMajor">>),
      Sent(<<"P","U","T"," ","/"," ","H","T","T","P","/","1",".","1","\r","\n","\r","\n">>, "malformed", <<"UnknownRequestType", <<"P","U","T">>>>),
      Sent(<<"G","E","T"," ","/","\r","\n","\r","\n">>, "malformed", <<"VersionMissing">>),
      Sent(<<"G","E","T"," ","/"," ","H","T","T","X","/","1",".","1","\r","\n","\r","\n">>, "malformed", <<"MalformedVersion">>),
      Sent(<<"G","E","T"," ","/","a",".","h","t","m","l"," ","H","T","T","P","/","1",".","1","\r","\n","j","u","n","k","\r","\n","\r","\n">>, "malformed", <<"FieldError", <<"j","u","n","k">>>>),
      Sent(<<"P","O","S","T"," ","/","u"," ","H","T","T","P","/","1",".","1","\r","\n","C","o","n","t","e","n","t","-","T","y","p","e",":"," ","m","u","l","t","i","p","a","r","t","/","f","o","r","m","-","d","a","t","a","\r","\n","\r","\n">>, "malformed",
           <<"MultipartNoBoundary">>),
      Sent(Flatten(MultipartPieces(<<LineCTMultipart>>,
                                   <<[header |-> <<LineCDText>>, payload |-> <<<<"h","i">>>>]>>)),
           "post", Blank),
      Sent(ReqPost \o LineCTMultipart \o CRLF \o LineOpen \o LineCDText \o CRLF \o <<"h">>,
           "post", Blank) }

\* what the surroundings decide during one call of respond: whether the
\* current directory can be had, whether the socket takes the response, and
\* how the relay of a POST ends
Envs == [cwd_ok : BOOLEAN, write_ok : BOOLEAN, relay : {"ok", "error", "panic"}]

\* the relay is reached by a POST only
EnvsOf(sent) == { env \in Envs : sent.sort # "post" => env.relay = "ok" }

MaxReads == 2

ConnNew ==
    [pc |-> "top", alive |-> TRUE, elapsed |-> 0, reads |-> 0, written |-> <<>>,
     log |-> <<>>, slept |-> FALSE, end |-> "none"]

InitDriver ==
    /\ msg = NoMsg
    /\ pos = 0
    /\ carried = None
    /\ state = RequestStateDefault
    /\ out = NoCall
    /\ calls = <<>>
    /\ part = <<>>
    /\ enc = NoCall
    /\ frame = NoCall
    /\ conn = ConnNew

Rest == <<msg, pos, carried, state, out, calls, part, enc, frame>>

\* the loop is left: by the break of the timeout ("timeout"), by the break of
\* the alive check ("closed"), by a returned error ("error") or by a panic
Leave(end) == conn' = [conn EXCEPT !.pc = "done", !.end = end]

\* loop: the idle timeout check
Top ==
    /\ conn.pc = "top"
    /\ IF conn.elapsed > IdleTimeoutMs THEN Leave("timeout")
       ELSE conn' = [conn EXCEPT !.pc = "read"]
    /\ UNCHANGED Rest

\* tls_conn.wants_read() is false
NoRead ==
    /\ conn.pc = "read"
    /\ conn' = [conn EXCEPT !.pc = "write"]
    /\ UNCHANGED Rest

\* read_tls, process_new_packets or read_exact fails with an error that is not
\* WouldBlock
ReadError ==
    /\ conn.pc = "read"
    /\ Leave("error")
    /\ UNCHANGED Rest

\* the read brings no plaintext
ReadNothing ==
    /\ conn.pc = "read"
    /\ conn' = [conn EXCEPT !.pc = "write", !.elapsed = 0]
    /\ UNCHANGED Rest

\* read_exact into vec![0; amount]: on WouldBlock the buffer holds the bytes
\* copied before the reader ran dry, and zeroes after them
read_exact(bytes, filled) == Take(bytes, filled) \o Repeat("NUL", Len(bytes) - filled)

\* how many bytes read_exact has copied when it returns: all of them, or, on
\* WouldBlock, none or all but the last
Fills(bytes, would_block) ==
    IF would_block THEN {0, Len(bytes) - 1} ELSE {Len(bytes)}

Logged(sent, would_block, env, r) ==
    [sent |-> sent, would_block |-> would_block, cwd_ok |-> env.cwd_ok,
     result |-> r.result, wrote |-> r.sent, before |-> conn.written,
     alive |-> conn.alive]

\* a slip in the loop: an error of respond is dropped and the loop goes on
Responded_ignoring_errors(sent, would_block, env, r) ==
    conn' = [conn EXCEPT !.alive = r.alive,
                         !.reads = @ + 1,
                         !.written = @ \o r.sent,
                         !.log = Append(@, Logged(sent, would_block, env, r)),
                         !.slept = FALSE,
                         !.pc = "write",
                         !.elapsed = 0]

\* server.respond(&read_bytes, &mut wrapper)?; last_change = Instant::now()
Responded(sent, would_block, env, r) ==
    conn' = [conn EXCEPT !.alive = r.alive,
                         !.reads = @ + 1,
                         !.written = @ \o r.sent,
                         !.log = Append(@, Logged(sent, would_block, env, r)),
                         !.slept = FALSE,
                         !.pc = IF r.result.kind = "ok" THEN "write" ELSE "done",
                         !.end = IF r.result.kind = "ok" THEN @
                                 ELSE IF r.result.kind = "panic" THEN "panic"
                                 ELSE "error",
                         !.elapsed = IF r.result.kind = "ok" THEN 0 ELSE @]

\* the read brings a chunk of plaintext, which is handed to respond
ReadChunk ==
    /\ conn.pc = "read"
    /\ conn.reads < MaxReads
    /\ \E sent \in Requests, would_block \in BOOLEAN :
           \E env \in EnvsOf(sent), filled \in Fills(sent.bytes, would_block) :
           Responded(sent, would_block, env,
                     respond(conn.alive, read_exact(sent.bytes, filled), env))
    /\ UNCHANGED Rest

\* tls_conn.wants_write() is false
NoWrite ==
    /\ conn.pc = "write"
    /\ conn' = [conn EXCEPT !.pc = "alive"]
    /\ UNCHANGED Rest

\* write_tls succeeds
WriteTls ==
    /\ conn.pc = "write"
    /\ conn' = [conn EXCEPT !.pc = "alive", !.elapsed = 0]
    /\ UNCHANGED Rest

\* write_tls fails
WriteError ==
    /\ conn.pc = "write"
    /\ Leave("error")
    /\ UNCHANGED Rest

\* if !server.alive() { break; }
CheckAlive ==
    /\ conn.pc = "alive"
    /\ IF conn.alive THEN conn' = [conn EXCEPT !.pc = "sleep"] ELSE Leave("closed")
    /\ UNCHANGED Rest

\* thread::sleep(Duration::from_millis(100))
Sleep ==
    /\ conn.pc = "sleep"
    /\ conn' = [conn EXCEPT !.pc = "top", !.elapsed = @ + SleepMs, !.slept = TRUE]
    /\ UNCHANGED Rest

NextDriver ==
    \/ Top
    \/ NoRead \/ ReadError \/ ReadNothing \/ ReadChunk
    \/ NoWrite \/ WriteTls \/ WriteError
    \/ CheckAlive
    \/ Sleep

SpecDriver == InitDriver /\ [][NextDriver]_vars


----------------------------------------------------------------------------
(* Claims about the connection loop (SpecDriver) *)

\* the last call of respond
LastCall == conn.log[Len(conn.log)]

NotFoundBytes == <<"H","T","T","P","/","1",".","1"," ","4","0","4"," ","N","o","t"," ","F","o","u","n","d","\r","\n","C","o","n","t","e","n","t","-","T","y","p","e",":"," ","t","e","x","t","/","h","t","m","l","\r","\n","C","o","n","n","e","c","t","i","o","n",":"," ","k","e","e","p","-","a","l","i","v","e","\r","\n","C","o","n","t","e","n","t","-","L","e","n","g","t","h",":"," ","1","3","\r","\n","\r","\n","4","0","4"," ","n","o","t"," ","f","o","u","n","d">>

\* the last chunk read was a GET of a path that does not exist, read without
\* WouldBlock, with the current directory at hand
MissingPathRead ==
    /\ conn.log # <<>>
    /\ LastCall.sent.sort = "missing"
    /\ ~LastCall.would_block
    /\ LastCall.cwd_ok

\* C7: a GET of a path that does not exist produces one response, the 404 with
\* body "404 not found", and clears alive; the loop does not sleep, read or
\* respond again: it goes on to the alive check of the same iteration and is
\* left there (or at once, when the socket refuses the response).
C7_UnknownPath ==
    MissingPathRead
        => /\ LastCall.wrote = <<[bytes |-> NotFoundBytes,
                                  complete |-> LastCall.result.kind = "ok"]>>
           /\ conn.written = LastCall.before \o LastCall.wrote
           /\ ~conn.alive
           /\ conn.pc \in {"write", "alive", "done"}
           /\ ~conn.slept
           /\ Len(conn.log) = conn.reads
           /\ conn.pc = "done" => conn.end \in {"closed", "error"}
           /\ (conn.pc = "done" /\ conn.end = "closed") => LastCall.result.kind = "ok"

\* C7: after a served file, a GET of a missing path has been answered with the
\* 404 and the loop has been left at the alive check
C7_Witness ==
    /\ MissingPathRead
    /\ Len(conn.log) = 2
    /\ conn.written[2] = [bytes |-> NotFoundBytes, complete |-> TRUE]
    /\ conn.pc = "done" /\ conn.end = "closed"

\* the errors of the decoder
RequestErrors ==
    { "HeaderMissing", "BodyMissing", "VersionMissing", "UnknownRequestType",
      "MalformedVersion", "InvalidMajor", "InvalidMinor", "UnsupportedMajor",
      "FieldError", "MultipartNoBoundary" }

\* C8: when the decoder refuses the bytes read, the loop is left with the
\* error at once: nothing is written for them and respond is not called again;
\* the malformed requests are refused with their errors.
C8_DecodeErrorCloses ==
    conn.log # <<>>
        => /\ (LastCall.sent.sort = "malformed" /\ ~LastCall.would_block)
                  => LastCall.result = Err(LastCall.sent.err)
           /\ (LastCall.result.kind = "err" /\ LastCall.result.err[1] \in RequestErrors)
                  => /\ LastCall.wrote = <<>>
                     /\ conn.written = LastCall.before
                     /\ conn.pc = "done" /\ conn.end = "error"
                     /\ Len(conn.log) = conn.reads

\* C8: after a served file, GET / HTTP/2.0 has been refused and the loop left
C8_Witness ==
    /\ conn.log # <<>> /\ Len(conn.log) = 2
    /\ LastCall.sent.bytes = <<"G","E","T"," ","/"," ","H","T","T","P","/","2",".","0","\r","\n","\r","\n">> /\ ~LastCall.would_block
    /\ LastCall.result = Err(<<"UnsupportedMajor">>)
    /\ Len(conn.written) = 1
    /\ conn.pc = "done" /\ conn.end = "error"

----------------------------------------------------------------------------
(* Completion of requests that declare no boundary (SpecPlain) *)

\* a blank line is among the lines handed over so far
BlankLineFed == \E i \in 1..Len(LinesFed) : LinesFed[i].sort = "blank"

\* C11: a request that declares no boundary is reported complete by the call
\* whose chunk brings the blank line ending its header block and by none
\* before: a first chunk with the request line and header lines but no blank
\* line returns is_partial = true.
C11_CompleteAtBlankLine ==
    (msg.kind = "plain" /\ CarriedChain /\ calls[1].upto >= 2 /\ out.kind = "ok")
        => (~out.is_partial <=> BlankLineFed)

----------------------------------------------------------------------------
(* Partial results in the connection loop (SpecDriver) *)

\* what the decoder makes of the chunk of the last call of respond, decoded
\* as the start of a request
LastDecode == parse(None, RequestStateDefault, LastCall.sent.bytes)

\* C12: when the decode of a chunk read succeeds with is_partial = true, the
\* loop keeps the Request for the next chunk, dispatches nothing, writes no
\* response and goes on; when it succeeds with is_partial = false the Request
\* is dispatched once, so at most one response is written for the chunk, and
\* exactly one for a GET of a file that is there.
C12_PartialSequencing ==
    (conn.log # <<>> /\ ~LastCall.would_block /\ LastDecode.kind = "ok")
        => IF LastDecode.is_partial
           THEN /\ LastCall.result = Done
                /\ LastCall.wrote = <<>>
                /\ conn.written = LastCall.before
                /\ conn.pc # "done"
           ELSE /\ Len(LastCall.wrote) <= 1
                /\ (LastCall.sent.sort = "file" /\ LastCall.cwd_ok) => Len(LastCall.wrote) = 1

----------------------------------------------------------------------------
(* The idle timeout (SpecQuiet) *)

\* the loop on a connection whose peer sends at most MaxReads chunks and then
\* nothing more, and whose engine has no ciphertext queued at the flush
NextQuiet ==
    \/ Top
    \/ NoRead \/ ReadError \/ ReadNothing \/ ReadChunk
    \/ NoWrite \/ WriteError
    \/ CheckAlive
    \/ Sleep

\* the thread of the connection keeps running, and every call it makes into
\* the TLS engine or the socket returns
SpecQuiet == InitDriver /\ [][NextQuiet]_vars /\ WF_vars(NextQuiet)

\* C13: a connection on which, from some moment on, no bytes are received or
\* sent leaves the connection loop.
C13_IdleTimeoutTeardown == <>(conn.pc = "done")

----------------------------------------------------------------------------
(* The line classifier, line by line (SpecClassifier): the lines that follow *)
(* the request line of one request, handed to parse_single in order, in one  *)
(* chunk or in several chunks parsed with the carried Request.               *)

LineCTNested == <<"C","o","n","t","e","n","t","-","T","y","p","e",":"," ","m","u","l","t","i","p","a","r","t","/","m","i","x","e","d",";"," ","b","o","u","n","d","a","r","y","=","C","\r","\n">>

LineText == <<"h","i","\r","\n">>

LineDashes == <<"-","-","x","\r","\n">>

\* a line and whether its chunk ends with it; a line without terminator is
\* the last of its chunk
Step(line, last) == [line |-> line, last |-> last]

ClassifierSteps ==
    { Step(l, FALSE) : l \in { LineCTMultipart, LineCTNested, LineOpen, LineClose, CRLF,
                               LineCDText, LineText, LineDashes } }
    \cup { Step(LineClose, TRUE), Step(<<"x">>, TRUE), Step(DashDash, TRUE),
           Step(<<"-","-","B","-">>, TRUE) }

MaxLines == 5

InitClassifier == msg = NoMsg /\ InitDecode

\* parse: at the end of a chunk that ends outside a part, state.data is moved
\* into the Request and left empty
end_of_chunk(st) == IF st.is_data_part THEN st ELSE [st EXCEPT !.data = <<>>]

Classified(step, r) ==
    /\ out' = r
    /\ state' = IF step.last /\ r.kind \in {"none", "ok"} THEN end_of_chunk(r.state)
                ELSE r.state
    /\ calls' = Append(calls, [line |-> step.line, last |-> step.last,
                               before |-> state, out |-> r])
    /\ UNCHANGED <<msg, pos, carried, part, enc, frame, conn>>

\* one call of parse_single; after an error or a panic no line follows
Classify ==
    /\ Len(calls) < MaxLines
    /\ out.kind \notin {"err", "panic"}
    /\ \E step \in ClassifierSteps : Classified(step, parse_single(state, step.line))

SpecClassifier == InitClassifier /\ [][Classify]_vars

\* C14: after every line the classifier has consumed, is_data_part_header
\* implies is_data_part.
C14_HeaderFlagInsidePart == state.is_data_part_header => state.is_data_part

\* C14: the opening boundary line of a second part has been consumed, so the
\* classifier is in a mini-header again
C14_Witness ==
    /\ Len(calls) = 5 /\ calls[5].line = LineOpen /\ calls[2].line = LineOpen
    /\ calls[3].line = CRLF /\ calls[4].line = LineText
    /\ ~calls[4].out.state.is_data_part_header
    /\ state.is_data_part_header /\ state.is_data_part
    /\ Len(state.data) = 2

\* C15: while one request is decoded, state.boundary is assigned at most once,
\* by a top-level Content-Type line, and no later line changes it.
C15_BoundarySetOnce ==
    \A i \in 1..Len(calls) :
        /\ calls[i].before.boundary.some
               => calls[i].out.state.boundary = calls[i].before.boundary
        /\ (~calls[i].before.boundary.some /\ calls[i].out.state.boundary.some)
               => /\ ~calls[i].before.is_data_part
                  /\ starts_with(calls[i].line, StrContentType)

----------------------------------------------------------------------------
(* Top-level fields across chunks (SpecMultipart) *)

\* the fields of the top-level header lines of the stream, in arrival order
ParsedTop ==
    [i \in 1..Len(msg.top) |-> parse_normal(RequestStateDefault, strip_crlf(msg.top[i])).val]

\* C16: when all chunks of a request have been parsed, each with the Request
\* the call before returned, the completed Request holds the field of every
\* top-level header line, in arrival order, also of the lines parsed in a chunk
\* after which the request was still partial.
C16_FieldAccumulation ==
    (msg.kind = "multipart" /\ CarriedChain /\ pos = Len(msg.pieces)
        /\ out.kind = "ok" /\ ~out.is_partial)
        => out.request.fields = ParsedTop

\* the classifier is inside the payload of a part
InPayload(st) == st.is_data_part /\ ~st.is_data_part_header

\* the line starts with "--" and the boundary
IsBoundaryLine(boundary, line) ==
    boundary.some /\ starts_with(line, DashDash \o as_bytes(boundary.val))

\* the payload of the part that was open before the i-th line, after that line
PayloadAfter(i) == calls[i].out.state.data[Len(calls[i].before.data)].data

\* C17: inside the payload of a part, a line that is no boundary line (a line
\* with control bytes, a line beginning with "--", a bare fragment) is appended
\* to the payload as it is, and a boundary line takes exactly one trailing CRLF
\* off the payload when there is one and nothing otherwise, also when the
\* payload is empty or shorter than two bytes.
C17_PayloadExactness ==
    \A i \in 1..Len(calls) :
        InPayload(calls[i].before)
            => /\ calls[i].out.kind = "none"
               /\ PayloadAfter(i) =
                      IF IsBoundaryLine(calls[i].before.boundary, calls[i].line)
                      THEN strip_crlf(last_data(calls[i].before).data)
                      ELSE last_data(calls[i].before).data \o calls[i].line

----------------------------------------------------------------------------
(* parse_arg on its own (SpecArg) *)

Quote == <<"\"">>

\* a value between outer quotes, and a value that does not both begin and end
\* with a quote; body is the value without its outer quotes
Quoted(inner) == [text |-> Quote \o inner \o Quote, body |-> inner, lone |-> FALSE]

Bare(text) == [text |-> text, body |-> text, lone |-> FALSE]

\* the value that is one quote character
LoneQuote == [text |-> Quote, body |-> Quote, lone |-> TRUE]

ArgCores ==
    { Quoted(inner) : inner \in { <<>>, <<"q">>, <<"q"," ","r">>, <<" ","x"," ">>, <<"a","\"","b">>, <<"\"">>, <<"x",";","y">>, <<"a",":","b">> } }
    \cup { Bare(text) : text \in { <<>>, <<"v">>, <<"a",":","b","=","c">>, <<"\"","x">>, <<"x","\"">>, <<"v"," ","w">>, <<"x","=","y">>, <<"uFFFD">> } }
    \cup { LoneQuote }

\* names: they hold no ':', and no '=' unless the delimiter is ':'
ArgNames == { <<"a">>, <<>>, <<"C","o","n","t","e","n","t","-","T","y","p","e">>, <<"n"," ","m">>, <<"uFFFD", "b">> }

Whitespaces == { <<>>, <<" ">>, <<"\t", " ">>, CRLF }

ArgMsg(name, delim, lead, core, trail) ==
    [kind |-> "arg", name |-> name, delim |-> delim, core |-> core,
     text |-> name \o <<delim>> \o lead \o core.text \o trail]

\* texts with neither ':' nor '='
RawMsg(text) == [kind |-> "raw", text |-> text]

ArgMsgs ==
    { ArgMsg(name, ":", lead, core, trail) :
          name \in ArgNames \cup { <<"k","=","v">> }, lead \in Whitespaces, core \in ArgCores,
          trail \in Whitespaces }
    \cup { ArgMsg(name, "=", lead, core, trail) :
               name \in ArgNames, lead \in Whitespaces,
               core \in { c \in ArgCores : find(c.text, ":") = 0 }, trail \in Whitespaces }
    \cup { RawMsg(text) : text \in { <<>>, <<"j","u","n","k">>, <<" ">>, Quote, <<"-","-","B">>, <<"a",";","b">> } }

InitArg == msg \in ArgMsgs /\ InitDecode

\* one call of Request::parse_arg
ParseArg ==
    /\ out.kind = "none"
    /\ out' = parse_arg(msg.text)
    /\ UNCHANGED <<msg, pos, carried, state, calls, part, enc, frame, conn>>

SpecArg == InitArg /\ [][ParseArg]_vars

\* C18: parse_arg gives as the name the text before the first ':' or, without
\* a ':', before the first '='; as the value the rest, trimmed, without its
\* outer quotes when it begins and ends with a quote; a value that is a single
\* quote character is a value like any other (it comes back as it is or
\* empty); a text with neither delimiter fails with FieldError and the text.
C18_ParseArg ==
    /\ (msg.kind = "arg" /\ out.kind # "none")
           => /\ out.kind = "ok"
              /\ out.val.name = msg.name
              /\ IF msg.core.lone THEN out.val.body \in { <<>>, Quote }
                 ELSE out.val.body = msg.core.body
    /\ (msg.kind = "raw" /\ out.kind # "none")
           => out = Err(<<"FieldError", msg.text>>)

----------------------------------------------------------------------------
(* parse_normal on one header line (SpecNormal) *)

\* the segments of a value after the first: a child attribute, with the name
\* and the value parse_arg is to find in it, or a segment without delimiter
ChildSeg(lead, name, delim, core, trail) ==
    [text |-> lead \o name \o <<delim>> \o core.text \o trail,
     trimmed |-> name \o <<delim>> \o core.text,
     sort |-> "child", child |-> [name |-> name, body |-> core.body], lone |-> core.lone]

BadSeg(lead, word, trail) ==
    [text |-> lead \o word \o trail, trimmed |-> word, sort |-> "bad",
     child |-> <<>>, lone |-> FALSE]

LaterSegs ==
    { ChildSeg(<<" ">>, <<"n","a","m","e">>, "=", Quoted(<<"f">>), <<>>),
      ChildSeg(<<>>, <<"b","o","u","n","d","a","r","y">>, "=", Bare(<<"B">>), <<" ">>),
      ChildSeg(<<" ">>, <<"c">>, "=", LoneQuote, <<>>),
      BadSeg(<<" ">>, <<"j","u","n","k">>, <<>>),
      BadSeg(<<>>, <<>>, <<" ">>) }

FirstSeg(text, trimmed) == [text |-> text, trimmed |-> trimmed]

FirstSegs ==
    { FirstSeg(<<"m","u","l","t","i","p","a","r","t","/","x">>, <<"m","u","l","t","i","p","a","r","t","/","x">>),
      FirstSeg(<<" ","a"," ","b"," ">>, <<"a"," ","b">>), FirstSeg(<<>>, <<>>) }

FieldNames == { StrUserAgent, <<"u","s","e","r","-","a","g","e","n","t">>, <<"H","o","s","t">>, StrContentType }

MaxSegs == 2

LaterSeqs == UNION { [1..n -> LaterSegs] : n \in 0..MaxSegs }

\* the segments joined with ';'
RECURSIVE JoinLater(_)
JoinLater(segs) ==
    IF segs = <<>> THEN <<>> ELSE <<";">> \o Head(segs).text \o JoinLater(Tail(segs))

\* a header line: name, ": ", the value (as it is or between outer quotes) and,
\* inside a mini-header, the CRLF
NormalMsg(name, first, later, quoted, crlf) ==
    [kind |-> "normal", name |-> name, first |-> first, later |-> later,
     quoted |-> quoted,
     value |-> first.text \o JoinLater(later),
     line |-> name \o <<":", " ">>
              \o (IF quoted THEN Quote \o first.text \o JoinLater(later) \o Quote
                  ELSE first.text \o JoinLater(later))
              \o (IF crlf THEN CRLF ELSE <<>>)]

NormalMsgs ==
    { NormalMsg(name, first, later, quoted, crlf) :
          name \in FieldNames, first \in FirstSegs, later \in LaterSeqs,
          quoted \in BOOLEAN, crlf \in BOOLEAN }

\* the state before the line: no boundary yet, or the boundary Z of an earlier
\* Content-Type line
InitNormal ==
    /\ msg \in NormalMsgs
    /\ pos = 0
    /\ carried = None
    /\ state \in { RequestStateDefault, [RequestStateDefault EXCEPT !.boundary = Some(<<"Z">>)] }
    /\ out = NoCall
    /\ calls = <<>>
    /\ DecodeIdle

Called(op) == \E i \in 1..Len(calls) : calls[i].op = op

\* what a call leaves behind: its result, and the state it has changed
Parsed(op, r) ==
    /\ ~Called(op)
    /\ out' = r
    /\ state' = r.state
    /\ calls' = Append(calls, [op |-> op, before |-> state, out |-> r])
    /\ UNCHANGED <<msg, pos, carried, part, enc, frame, conn>>

\* one call of Request::parse_normal on the line
ParseNormal == Parsed("parse_normal", parse_normal(state, msg.line))

\* one call of PartialRequest::parse on a request line followed by the line as
\* a top-level header line
ParseTop == Parsed("parse", parse(None, state, ReqPost \o strip_crlf(msg.line) \o CRLF))

NextNormal == ParseNormal \/ ParseTop

SpecNormal == InitNormal /\ [][NextNormal]_vars


\* the call of parse_normal made on the line
NormalCall == calls[CHOOSE i \in 1..Len(calls) : calls[i].op = "parse_normal"]

\* a later segment whose value is a single quote character: parse_arg panics
\* on it (C18)
HasLoneQuote == \E i \in 1..Len(msg.later) : msg.later[i].lone

\* a multipart Content-Type without child attribute: the missing boundary
MissingBoundary ==
    /\ msg.name = StrContentType
    /\ starts_with(msg.first.trimmed, StrMultipart)
    /\ msg.later = <<>>

BadSegs == { i \in 1..Len(msg.later) : msg.later[i].sort = "bad" }

FirstBadSeg == msg.later[CHOOSE i \in BadSegs : \A j \in BadSegs : i <= j]

\* C19: a field named exactly User-Agent comes back with its whole value
\* unsplit and without children, whatever semicolons it holds; of every other
\* field the value is split on ';', the first trimmed segment is the primary
\* value and every later trimmed segment is one child attribute, in order; the
\* field fails with FieldError when a later segment has neither ':' nor '='.
\* (Left aside: a segment whose value is one quote character, and the
\* multipart Content-Type without child attribute.)
C19_AttributeSplitting ==
    (msg.kind = "normal" /\ Called("parse_normal"))
        => IF msg.name = StrUserAgent
           THEN /\ NormalCall.out.kind = "ok"
                /\ NormalCall.out.val =
                       Field(StrUserAgent, IF msg.quoted THEN msg.value ELSE trim(msg.value),
                             <<>>)
           ELSE IF HasLoneQuote \/ MissingBoundary THEN TRUE
           ELSE IF BadSegs # {}
           THEN /\ NormalCall.out.kind = "err"
                /\ NormalCall.out.err = <<"FieldError", FirstBadSeg.trimmed>>
           ELSE /\ NormalCall.out.kind = "ok"
                /\ NormalCall.out.val =
                       Field(msg.name, msg.first.trimmed,
                             [i \in 1..Len(msg.later) |-> msg.later[i].child])

\* C19: a User-Agent line whose value holds two semicolons has come back
\* unsplit and without children
C19_Witness ==
    /\ msg.kind = "normal" /\ Called("parse_normal") /\ Len(msg.later) = 2
    /\ msg.name = StrUserAgent /\ ~msg.quoted
    /\ msg.later[1].child = [name |-> <<"n","a","m","e">>, body |-> <<"f">>]
    /\ msg.later[2].sort = "bad"
    /\ NormalCall.out.kind = "ok" /\ NormalCall.out.val.children = <<>>
    /\ Cardinality({ i \in 1..Len(NormalCall.out.val.this.body) :
                        NormalCall.out.val.this.body[i] = ";" }) = 2

\* the call of parse made on the request line and the line
TopCall == calls[CHOOSE i \in 1..Len(calls) : calls[i].op = "parse"]

\* a Content-Type line whose primary value starts with "multipart" and whose
\* later segments, if any, are child attributes
MultipartLine ==
    /\ msg.kind = "normal"
    /\ msg.name = StrContentType
    /\ starts_with(msg.first.trimmed, StrMultipart)
    /\ BadSegs = {}
    /\ ~HasLoneQuote

\* C20: a Content-Type field whose primary value starts with "multipart" sets
\* state.boundary to the value of its first child attribute when it has one;
\* when it has none, parse_normal fails with MultipartNoBoundary and leaves
\* state.boundary as it was, and the decode of a request with that top-level
\* line fails with MultipartNoBoundary, returns no Request and leaves no
\* boundary set.
C20_MissingBoundary ==
    /\ (MultipartLine /\ Called("parse_normal"))
           => IF msg.later # <<>>
              THEN /\ NormalCall.out.kind = "ok"
                   /\ NormalCall.out.state.boundary = Some(msg.later[1].child.body)
              ELSE /\ NormalCall.out = Err(<<"MultipartNoBoundary">>) @@ [state |-> NormalCall.before]
    /\ (MultipartLine /\ Called("parse"))
           => IF msg.later # <<>>
              THEN /\ TopCall.out.kind = "ok"
                   /\ TopCall.out.state.boundary = Some(msg.later[1].child.body)
              ELSE /\ TopCall.out.kind = "err"
                   /\ TopCall.out.err = <<"MultipartNoBoundary">>
                   /\ ~TopCall.out.state.boundary.some

\* C20: Content-Type: multipart/x without child attribute has been refused by
\* parse_normal, with the boundary Z of the state left as it was, and as the
\* top-level line of a request
C20_Witness ==
    /\ MultipartLine /\ msg.later = <<>> /\ Len(calls) = 2
    /\ calls[1].op = "parse_normal" /\ calls[1].before.boundary = Some(<<"Z">>)
    /\ calls[1].out.kind = "err" /\ calls[1].out.state.boundary = Some(<<"Z">>)
    /\ calls[2].op = "parse" /\ calls[2].out.kind = "err"

----------------------------------------------------------------------------
(* WouldBlock on the plaintext read (SpecDriver) *)

\* the last chunk was read with WouldBlock
WouldBlockRead == conn.log # <<>> /\ LastCall.would_block

\* C21: when reading the decrypted bytes returns WouldBlock, the loop takes it
\* as "no data yet": the iteration raises no error, has no effect of a decode
\* or a dispatch (nothing is written, alive is as it was) and the loop goes on.
C21_WouldBlockIsNoData ==
    WouldBlockRead
        => /\ LastCall.result = Done
           /\ LastCall.wrote = <<>>
           /\ conn.written = LastCall.before
           /\ conn.alive = LastCall.alive
           /\ conn.pc # "done"

\* the zeroed buffer of a WouldBlock read is refused by the decoder as an
\* unknown request type and the loop is left with the error
C21_ZeroedBufferRefused ==
    /\ WouldBlockRead
    /\ LastCall.result = Err(<<"UnknownRequestType", Repeat("NUL", Len(LastCall.sent.bytes))>>)
    /\ conn.pc = "done" /\ conn.end = "error"

\* the buffer of a WouldBlock read, filled but for its last byte, is decoded
\* and dispatched as a POST, and a response is written
C21_PartBufferDispatched ==
    /\ WouldBlockRead
    /\ LastCall.sent.sort = "post"
    /\ LastCall.result = Done
    /\ Len(LastCall.wrote) = 1

----------------------------------------------------------------------------
(* Two requests on one connection (SpecReset): a first request, left at some *)
(* point of an upload or complete, followed by the bytes of a second one.    *)

LineDashField == <<"-","-","B",":"," ","x","\r","\n">>

\* the first request: an upload left inside its payload, inside its
\* mini-header, a complete upload, and a GET
FirstRequests ==
    { <<ReqPost, LineCTMultipart, CRLF, LineOpen, LineCDText, CRLF, <<"h","i">>>>,
      <<ReqPost, LineCTMultipart, CRLF, LineOpen, LineCDText>>,
      MultipartPieces(<<LineCTMultipart>>,
                      <<[header |-> <<LineCDText>>, payload |-> <<<<"h","i">>>>]>>),
      <<ReqGet, LineHost, CRLF>> }

\* the second request: a GET, a GET with a header line that starts with the
\* first request's delimiter, a GET followed by that request's closing boundary
\* line, and an upload of its own
SecondRequests ==
    { <<ReqGet, LineHost, CRLF>>,
      <<ReqGet, LineDashField, CRLF>>,
      <<ReqGet, LineClose>>,
      MultipartPieces(<<LineCTMultipart>>,
                      <<[header |-> <<LineCDText>>, payload |-> <<<<"y","o">>>>]>>) }

ResetMsg(first, second) ==
    [kind |-> "reset", first |-> Len(first), pieces |-> first \o second]

ResetMsgs == { ResetMsg(f, s) : f \in FirstRequests, s \in SecondRequests }

InitReset == msg \in ResetMsgs /\ InitDecode

SpecReset == InitReset /\ [][NextDecode]_vars

\* the state the decoder held when call i was made
StateBefore(i) == IF i = 1 THEN RequestStateDefault ELSE calls[i - 1].out.state

\* C22: a call of parse without a carried Request gives the result (Request,
\* is_partial, error) and leaves the state that the same chunk gives from the
\* default state, whatever boundary, flags and parts the state held before.
C22_FreshReset ==
    \A i \in 1..Len(calls) :
        calls[i].fresh
            => calls[i].out = parse(None, RequestStateDefault,
                                    Chunk(msg, calls[i].from, calls[i].upto))

\* C22: with the state left inside the payload of an unfinished upload, the
\* second request, an upload of its own, has been decoded without a carried
\* Request: its Request holds its one part and nothing of the first upload
C22_Witness ==
    /\ msg.kind = "reset"
    /\ Len(calls) = 2
    /\ calls[2].fresh /\ calls[2].from = msg.first /\ calls[2].upto = Len(msg.pieces)
    /\ StateBefore(2).boundary = Some(<<"B">>)
    /\ StateBefore(2).is_data_part
    /\ StateBefore(2).data = <<[fields |-> <<Field(StrContentDisposition, <<"f","o","r","m","-","d","a","t","a">>, <<[name |-> <<"n","a","m","e">>, body |-> <<"f">>]>>)>>, data |-> <<"h","i">>]>>
    /\ out.kind = "ok" /\ ~out.is_partial
    /\ Len(out.request.data) = 1
    /\ out.request.data[1].data = <<"y","o">>
    /\ state = [RequestStateDefault EXCEPT !.boundary = Some(<<"B">>)]

----------------------------------------------------------------------------
(* Totality of the decoder (SpecClassifier) *)

\* the last line handed to parse_single made the thread unwind
Unwound == calls # <<>> /\ out.kind = "panic"

LastLine == calls[Len(calls)]

\* C23: from every state the decoder reaches, every line of a chunk is
\* classified with a result (nothing, a field or a RequestError): no call
\* unwinds on a slice out of range, an underflow or an unwrap.
C23_DecoderTotality == out.kind # "panic"

\* a line "--" shorter than "--" and the boundary: &line[..boundary.len()]
C23_ShortDashLine ==
    /\ Unwound
    /\ LastLine.line = DashDash
    /\ LastLine.before.boundary = Some(<<"B">>)

\* a boundary line followed by one byte, the chunk ending inside the closing
\* boundary line: &line_end[..2]
C23_ShortLineEnd ==
    /\ Unwound
    /\ LastLine.line = <<"-","-","B","-">>
    /\ LastLine.before.boundary = Some(<<"B">>)
    /\ LastLine.before.data = <<>>

\* a boundary line reached while the payload of the last part holds fewer
\* than two bytes: last_data.len()-2
C23_ShortPayload ==
    /\ Unwound
    /\ LastLine.line = LineClose
    /\ LastLine.before.data # <<>>
    /\ Len(last_data(LastLine.before).data) < 2

----------------------------------------------------------------------------
(* Conservation and order of the parts (SpecMultipart) *)

\* the opening boundary lines among the pieces handed over so far
OpenedParts == Cardinality({ i \in 1..pos : msg.pieces[i] = LineOpen })

\* the parts the decoder holds: those of the Request, then those of the state
HeldParts == out.request.data \o state.data

IsPrefix(s, t) == Len(s) <= Len(t) /\ s = Take(t, Len(s))

\* the fields of the mini-header of the k-th part of the stream
PartFields(k) ==
    [i \in 1..Len(msg.parts[k].header) |->
        parse_normal(RequestStateDefault, msg.parts[k].header[i]).val]

\* the bytes between the mini-header of the k-th part and the next boundary line
PartBytes(k) == Flatten(msg.parts[k].payload) \o CRLF

\* C24: after every chunk of one request, the Request and the state together
\* hold one DataPart for each opening boundary line consumed so far, the k-th
\* of them built from the k-th part of the stream, and when the call returns
\* is_partial = false all of them are in the Request and state.data is empty.
C24_PartConservation ==
    (msg.kind = "multipart" /\ CarriedChain /\ out.kind = "ok")
        => /\ Len(HeldParts) = OpenedParts
           /\ \A k \in 1..Len(HeldParts) :
                  /\ IsPrefix(HeldParts[k].fields, PartFields(k))
                  /\ IsPrefix(HeldParts[k].data, PartBytes(k))
           /\ ~out.is_partial => state.data = <<>>

\* C24: the first chunk ended inside the first part and the second chunk
\* brought the rest: the Request holds the two parts of the stream, the one
\* with payload "hi" before the one without payload
C24_Witness ==
    /\ msg.kind = "multipart" /\ Len(msg.parts) = 2
    /\ CarriedChain /\ Len(calls) = 2 /\ pos = Len(msg.pieces)
    /\ calls[1].out.kind = "ok" /\ calls[1].out.is_partial
    /\ Len(calls[1].out.state.data) = 1
    /\ out.kind = "ok" /\ ~out.is_partial
    /\ state.data = <<>>
    /\ Len(out.request.data) = 2
    /\ out.request.data[1].data = <<"h","i">>
    /\ out.request.data[2].data = <<>>

====
